---------------------------- MODULE Spec2Model ----------------------------
(***************************************************************************)
(* Stock screening engine of stock-trade-by-z: the indicator library       *)
(* (RSV, KDJ, BBI, SMA), the selector contract and the selection runner    *)
(* of stocktradebyz/select.py.                                             *)
(*                                                                         *)
(* Floating point values are modelled as exact rationals extended with     *)
(* NaN and +/-Inf, the values pandas/numpy produce for missing data and    *)
(* for division by zero.                                                   *)
(***************************************************************************)
EXTENDS Integers, Sequences, FiniteSets, TLC

VARIABLES
    bars,       \* the OHLCV series of the instrument under evaluation
    n,          \* the rolling window handed to the RSV / KDJ computation
    sel,        \* the selector under evaluation: its class and parameters
    tradeDate,  \* the trade date handed to select
    phase,      \* "history" while the series grows, "selected" after select
    tail,       \* bars appended to the opening stretch of the series
    outcome,    \* what select returned for the universe as loaded
    outcomePast, \* the same with every bar dated after tradeDate removed
    dir,        \* the data directory: the codes that have a CSV file
    tickers,    \* --tickers: "all" or the list of codes asked for
    dateArg,    \* --date: "none" or the requested trade date
    cfgs,       \* the selector configurations, in file order
    listing,    \* the codes in the order the run enumerated them
    frames,     \* the loaded universe: code and series, in insertion order
    pc,         \* where main() stands
    cur,        \* index of the next configuration of the loop
    reports,    \* the result blocks logged so far
    errlog,     \* the errors logged so far
    attempted,  \* configurations handed to instantiate_selector
    built,      \* configurations whose selector was constructed
    hist,       \* one instrument's rows: its bars with the indicator columns
    verdict,    \* what the evaluation of the predicate on hist computed
    disk,       \* the output directory of the fetch driver: stem to CSV file
    task        \* the fetch tasks submitted to the thread pool

indVars == <<bars, n>>
selVars == <<sel, tradeDate, phase, tail, outcome, outcomePast>>
runVars == <<dir, tickers, dateArg, cfgs, listing, frames, pc, cur, reports,
             errlog, attempted, built>>
predVars == <<hist, verdict>>
fetchVars == <<disk, task>>
vars == <<bars, n, sel, tradeDate, phase, tail, outcome, outcomePast,
          dir, tickers, dateArg, cfgs, listing, frames, pc, cur, reports,
          errlog, attempted, built, hist, verdict, disk, task>>

-----------------------------------------------------------------------------
(* Bounds of the model *)

\* longest series generated for the short-window indicators (RSV, KDJ)
MaxLen == 3
\* largest rolling window tried for RSV / KDJ
MaxN == 3

\* bars appended after the constant opening stretch of a long series
MaxTail == 3
\* how many of the latest bars may lie after the trade date
MaxFuture == 1

\* longest list of selector configurations
MaxCfgs == 2

\* most rows appended to an instrument's history
MaxRows == 3

\* the window of the RSV that feeds the KDJ lines
KDJWindow == 9

\* prices a generated bar may take
PriceVals == {1, 2, 3}

\* closing prices of the long series, and the lengths of their opening stretch
LongPrices == {1, 2, 10}

PrefixLens == {0, 21, 22, 23}

-----------------------------------------------------------------------------
(* Extended rational arithmetic: the float values of the program *)

Abs(x) == IF x < 0 THEN -x ELSE x

Sign(x) == IF x < 0 THEN -1 ELSE IF x > 0 THEN 1 ELSE 0

RECURSIVE GCD(_, _)
GCD(a, b) == IF b = 0 THEN a ELSE GCD(b, a % b)

NaN == [k |-> "nan", n |-> 0, d |-> 0]

Inf(s) == [k |-> "inf", n |-> s, d |-> 0]

\* the rational num/den, den # 0, in lowest terms with a positive denominator
Rat(num, den) ==
    LET s == IF den < 0 THEN -1 ELSE 1
        g == GCD(Abs(num), Abs(den))
    IN [k |-> "num", n |-> (s * num) \div g, d |-> (s * den) \div g]

RInt(x) == [k |-> "num", n |-> x, d |-> 1]

IsNum(a) == a.k = "num"

IsNaN(a) == a.k = "nan"

RNeg(a) == IF IsNum(a) THEN [a EXCEPT !.n = -a.n]
           ELSE IF IsNaN(a) THEN NaN ELSE Inf(-a.n)

RAdd(a, b) ==
    IF IsNaN(a) \/ IsNaN(b) THEN NaN
    ELSE IF ~IsNum(a) /\ ~IsNum(b) THEN (IF a.n = b.n THEN a ELSE NaN)
    ELSE IF ~IsNum(a) THEN a
    ELSE IF ~IsNum(b) THEN b
    ELSE Rat(a.n * b.d + b.n * a.d, a.d * b.d)

RSub(a, b) == RAdd(a, RNeg(b))

RMul(a, b) ==
    IF IsNaN(a) \/ IsNaN(b) THEN NaN
    ELSE IF IsNum(a) /\ IsNum(b) THEN Rat(a.n * b.n, a.d * b.d)
    ELSE IF Sign(a.n) * Sign(b.n) = 0 THEN NaN
    ELSE Inf(Sign(a.n) * Sign(b.n))

\* IEEE division: 0/0 and Inf/Inf are NaN, x/0 is +/-Inf, x/Inf is 0
RDiv(a, b) ==
    IF IsNaN(a) \/ IsNaN(b) THEN NaN
    ELSE IF ~IsNum(a) /\ ~IsNum(b) THEN NaN
    ELSE IF ~IsNum(b) THEN RInt(0)
    ELSE IF ~IsNum(a) THEN Inf(IF b.n < 0 THEN -a.n ELSE a.n)
    ELSE IF b.n = 0 THEN (IF a.n = 0 THEN NaN ELSE Inf(Sign(a.n)))
    ELSE Rat(a.n * b.d, a.d * b.n)

\* a < b as floats compare: every comparison with NaN is false
RLt(a, b) ==
    /\ ~IsNaN(a)
    /\ ~IsNaN(b)
    /\ IF IsNum(a) /\ IsNum(b) THEN a.n * b.d < b.n * a.d
       ELSE IF ~IsNum(a) /\ ~IsNum(b) THEN a.n < b.n
       ELSE IF ~IsNum(a) THEN a.n < 0
       ELSE b.n > 0

RGtOrUnordered(a, b) == IsNaN(a) \/ IsNaN(b) \/ RLt(b, a)

\* a > b as floats compare
RGt(a, b) == RLt(b, a)

RLe(a, b) == ~IsNaN(a) /\ ~IsNaN(b) /\ ~RLt(b, a)

-----------------------------------------------------------------------------
(* Rolling windows of pandas *)

SeqMin(s) == CHOOSE x \in {s[i] : i \in 1..Len(s)} :
                 \A y \in {s[i] : i \in 1..Len(s)} : x <= y

SeqMax(s) == CHOOSE x \in {s[i] : i \in 1..Len(s)} :
                 \A y \in {s[i] : i \in 1..Len(s)} : x >= y

\* s[lo] + ... + s[hi]
RECURSIVE SumRange(_, _, _)
SumRange(s, lo, hi) == IF lo > hi THEN 0 ELSE s[lo] + SumRange(s, lo + 1, hi)

Column(series, f) == [i \in 1..Len(series) |-> series[i][f]]

\* the last w entries of s ending at (1-based) position i; needs i >= w
Window(s, i, w) == SubSeq(s, i - w + 1, i)

\* Series.rolling(window=w, min_periods=w).min(): NaN until w entries exist
RollingMin(s, w) ==
    [i \in 1..Len(s) |-> IF i < w THEN NaN ELSE RInt(SeqMin(Window(s, i, w)))]

RollingMax(s, w) ==
    [i \in 1..Len(s) |-> IF i < w THEN NaN ELSE RInt(SeqMax(Window(s, i, w)))]

RollingMeanAhead(s, w) ==
    [i \in 1..Len(s) |->
        IF i + 1 < w \/ i + 1 > Len(s) THEN NaN
        ELSE Rat(SumRange(s, i - w + 2, i + 1), w)]

\* Series.rolling(window=w).mean(): min_periods defaults to the window
RollingMean(s, w) ==
    [i \in 1..Len(s) |->
        IF i < w THEN NaN ELSE Rat(SumRange(s, i - w + 1, i), w)]

-----------------------------------------------------------------------------
(* Indicator library *)

RSVBroken(series, w) ==
    LET low_list  == RollingMin(Column(series, "low"), 1)
        high_list == RollingMax(Column(series, "high"), 1)
    IN [i \in 1..Len(series) |->
           RMul(RDiv(RSub(RInt(series[i].close), low_list[i]),
                     RSub(high_list[i], low_list[i])),
                RInt(100))]

\* rsv = (close - rolling low) / (rolling high - rolling low) * 100
RSV(series, w) ==
    LET low_list  == RollingMin(Column(series, "low"), w)
        high_list == RollingMax(Column(series, "high"), w)
    IN [i \in 1..Len(series) |->
           RMul(RDiv(RSub(RInt(series[i].close), low_list[i]),
                     RSub(high_list[i], low_list[i])),
                RInt(100))]

KStepBroken(kPrev, r) == RAdd(RMul(Rat(1, 2), kPrev), RMul(Rat(1, 2), r))

\* one smoothing step of the KDJ loop: 2/3 * previous + 1/3 * input
KStep(kPrev, r) == RAdd(RMul(Rat(2, 3), kPrev), RMul(Rat(1, 3), r))

JOf(kv, dv) == RSub(RMul(RInt(3), kv), RMul(RInt(2), dv))

RECURSIVE KDJLoopNeutral(_, _, _)
KDJLoopNeutral(rsv, i, acc) ==
    IF i > Len(rsv) THEN acc
    ELSE IF i = 1
         THEN KDJLoopNeutral(rsv, 2, [k |-> <<RInt(50)>>, d |-> <<RInt(50)>>,
                                      j |-> <<RInt(50)>>])
         ELSE LET kv == KStep(acc.k[i - 1],
                              IF IsNaN(rsv[i]) THEN RInt(50) ELSE rsv[i])
                  dv == KStep(acc.d[i - 1], kv)
              IN KDJLoopNeutral(rsv, i + 1,
                                [k |-> Append(acc.k, kv),
                                 d |-> Append(acc.d, dv),
                                 j |-> Append(acc.j, JOf(kv, dv))])

RECURSIVE KDJLoop(_, _, _)
KDJLoop(rsv, i, acc) ==
    IF i > Len(rsv) THEN acc
    ELSE IF i = 1
         THEN KDJLoop(rsv, 2, [k |-> <<RInt(50)>>, d |-> <<RInt(50)>>,
                               j |-> <<RInt(50)>>])
         ELSE LET kv == KStep(acc.k[i - 1], rsv[i])
                  dv == KStep(acc.d[i - 1], kv)
              IN KDJLoop(rsv, i + 1,
                         [k |-> Append(acc.k, kv), d |-> Append(acc.d, dv),
                          j |-> Append(acc.j, JOf(kv, dv))])

\* the K, D and J lines of a series, smoothed from its w-bar RSV
KDJ(series, w) ==
    KDJLoop(RSV(series, w), 1, [k |-> <<>>, d |-> <<>>, j |-> <<>>])

\* simple moving average of close over w bars
SMA(series, w) == RollingMean(Column(series, "close"), w)

BBIShortWindows(series) ==
    LET ma3  == SMA(series, 3)
        ma6  == SMA(series, 6)
        ma12 == SMA(series, 12)
        ma20 == SMA(series, 20)
    IN [i \in 1..Len(series) |->
           RDiv(RAdd(RAdd(RAdd(ma3[i], ma6[i]), ma12[i]), ma20[i]), RInt(4))]

\* bbi = (ma3 + ma6 + ma12 + ma24) / 4
BBI(series) ==
    LET ma3  == SMA(series, 3)
        ma6  == SMA(series, 6)
        ma12 == SMA(series, 12)
        ma24 == SMA(series, 24)
    IN [i \in 1..Len(series) |->
           RDiv(RAdd(RAdd(RAdd(ma3[i], ma6[i]), ma12[i]), ma24[i]), RInt(4))]

-----------------------------------------------------------------------------
(* Selector contract: select(tradeDate, universe) -> Pick Set *)

SetMax(S) == CHOOSE x \in S : \A y \in S : x >= y

Larger(a, b) == IF a >= b THEN a ELSE b

\* position of the latest bar dated on or before d, 0 when there is none
EvalIndex(series, d) ==
    LET past == {i \in 1..Len(series) : series[i].date <= d}
    IN IF past = {} THEN 0 ELSE SetMax(past)

DropNaN(values) == SelectSeq(values, LAMBDA v : ~IsNaN(v))

QuantileUnsorted(values, q) ==
    LET v  == DropNaN(values)
        m  == Len(v)
        h  == q.n * (m - 1)
        lo == h \div q.d
    IN IF m = 0 THEN NaN
       ELSE IF lo + 1 >= m THEN v[m]
       ELSE RAdd(v[lo + 1],
                 RMul(Rat(h % q.d, q.d), RSub(v[lo + 2], v[lo + 1])))

\* np.nanquantile(values, q): linear interpolation between the two order
\* statistics around position q * (m - 1) of the m entries that are not NaN
Quantile(values, q) ==
    LET v  == SortSeq(DropNaN(values), RLt)
        m  == Len(v)
        h  == q.n * (m - 1)
        lo == h \div q.d
    IN IF m = 0 THEN NaN
       ELSE IF lo + 1 >= m THEN v[m]
       ELSE RAdd(v[lo + 1],
                 RMul(Rat(h % q.d, q.d), RSub(v[lo + 2], v[lo + 1])))

\* the closed trailing window [max(0, idx - w + 1), idx]
TrailingWindow(s, idx, w) ==
    LET lo == Larger(1, idx - w + 1)
    IN [j \in 1..(idx - lo + 1) |-> s[lo + j - 1]]

\* the short average crosses above the long one at bar i
CrossUp(short, long, i) ==
    /\ i > 1
    /\ RLe(short[i - 1], long[i - 1])
    /\ RGt(short[i], long[i])

\* s.iloc[max(0, idx - w):idx + 1]: the entries from w positions before idx
\* up to idx
IlocWindow(s, idx, w) ==
    LET lo == Larger(1, idx - w)
    IN [j \in 1..(idx - lo + 1) |-> s[lo + j - 1]]

\* the reference evaluation of BBIShortLongSelector: a golden cross at one
\* of the bars range(max(0, idx - m), idx + 1) and BBI below the quantile of
\* bbi.iloc[max(0, idx - bbi_min_window):idx + 1]
BBIShortLongPasses(p, series, idx) ==
    LET short == SMA(series, p.n_short)
        long  == SMA(series, p.n_long)
        bbi   == BBI(series)
    IN /\ \E i \in Larger(1, idx - p.m)..idx : CrossUp(short, long, i)
       /\ RLt(bbi[idx],
              Quantile(IlocWindow(bbi, idx, p.bbi_min_window),
                       p.bbi_q_threshold))

\* a >= b as floats compare
RGe(a, b) == RLe(b, a)

\* bbi_deriv_uptrend: true at i when each of the last minWindow steps ending
\* at i is non-decreasing, bbi[k] >= bbi[k-1]; a step that reaches before the
\* first entry or touches an undefined value is not non-decreasing
BBIDerivUptrend(bbi, minWindow) ==
    [i \in 1..Len(bbi) |->
        /\ i - minWindow >= 1
        /\ \A k \in (i - minWindow + 1)..i : RGe(bbi[k], bbi[k - 1])]

\* the 3-point check bbi[idx] > bbi[idx-1] > bbi[idx-2]
ThreePointRising(bbi, idx) ==
    /\ idx >= 3
    /\ RGt(bbi[idx], bbi[idx - 1])
    /\ RGt(bbi[idx - 1], bbi[idx - 2])

\* np.nanquantile(j.iloc[max(0, idx - max_window):idx + 1], j_q_threshold)
JQuantile(p, series, idx) ==
    Quantile(IlocWindow(Column(series, "j"), idx, p.max_window),
             p.j_q_threshold)

JBelow(jv, thr) == RLt(jv, thr)

\* j_value > selector.j_threshold
JAbove(jv, thr) == RGt(jv, thr)

\* (max - min) / min of close.iloc[max(0, idx - w):idx + 1]
PriceRange(series, idx, w) ==
    LET win == IlocWindow(Column(series, "close"), idx, w)
    IN RDiv(RInt(SeqMax(win) - SeqMin(win)), RInt(SeqMin(win)))

\* the reference evaluation of BBIKDJSelector on the indicator columns
BBIKDJPasses(p, series, idx) ==
    LET j_value == series[idx].j
    IN /\ RGt(j_value, JQuantile(p, series, idx))
       /\ RLt(series[idx].bbi,
              Quantile(IlocWindow(Column(series, "bbi"), idx,
                                  p.bbi_min_window),
                       p.bbi_q_threshold))
       /\ RLe(PriceRange(series, idx, p.max_window), p.price_range_pct)
       /\ JAbove(j_value, p.j_threshold)

\* the reference evaluation of BreakoutVolumeKDJSelector; the reference bar
\* is bar max(0, idx - offset)
BreakoutVolumeKDJPasses(p, series, idx) ==
    LET j_value       == series[idx].j
        ref           == Larger(1, idx - p.offset)
        price_change  == RMul(RDiv(RInt(series[idx].close - series[ref].close),
                                   RInt(series[ref].close)),
                              RInt(100))
        volume_change == RDiv(RInt(series[idx].volume),
                              RInt(series[ref].volume))
    IN /\ RGt(j_value, JQuantile(p, series, idx))
       /\ RGt(price_change, p.up_threshold)
       /\ RGt(volume_change, p.volume_threshold)
       /\ RLe(PriceRange(series, idx, p.max_window), p.price_range_pct)
       /\ JAbove(j_value, p.j_threshold)

PeakKDJPassesNoGap(p, series, idx) ==
    LET j_value    == series[idx].j
        price_fluc == RDiv(RInt(series[idx].high - series[idx].low),
                           RInt(series[idx].low))
    IN /\ RGt(j_value, JQuantile(p, series, idx))
       /\ RGt(price_fluc, p.fluc_threshold)
       /\ JAbove(j_value, p.j_threshold)

\* the reference evaluation of PeakKDJSelector; no gap at the first bar
PeakKDJPasses(p, series, idx) ==
    LET j_value    == series[idx].j
        price_fluc == RDiv(RInt(series[idx].high - series[idx].low),
                           RInt(series[idx].low))
    IN /\ RGt(j_value, JQuantile(p, series, idx))
       /\ RGt(price_fluc, p.fluc_threshold)
       /\ IF idx > 1
          THEN RGt(RDiv(RInt(series[idx].low - series[idx - 1].high),
                        RInt(series[idx - 1].high)),
                   p.gap_threshold)
          ELSE FALSE
       /\ JAbove(j_value, p.j_threshold)

\* the largest window a strategy is configured with
LargestWindow(s) ==
    CASE s.class = "BBIShortLongSelector" ->
             SetMax({s.params.n_short, s.params.n_long, s.params.m,
                     s.params.bbi_min_window, s.params.max_window})
      [] s.class = "BBIKDJSelector" ->
             SetMax({s.params.bbi_min_window, s.params.max_window})
      [] s.class = "BreakoutVolumeKDJSelector" ->
             SetMax({s.params.offset, s.params.max_window})
      [] s.class = "PeakKDJSelector" -> s.params.max_window

Passes(s, series, idx) ==
    CASE s.class = "BBIShortLongSelector" ->
             BBIShortLongPasses(s.params, series, idx)
      [] s.class = "BBIKDJSelector" ->
             BBIKDJPasses(s.params, series, idx)
      [] s.class = "BreakoutVolumeKDJSelector" ->
             BreakoutVolumeKDJPasses(s.params, series, idx)
      [] s.class = "PeakKDJSelector" ->
             PeakKDJPasses(s.params, series, idx)

SelectOneNoHistoryCheck(s, d, series) ==
    LET idx == EvalIndex(series, d)
    IN /\ idx # 0
       /\ Passes(s, series, idx)

\* one instrument: skipped without a bar on or before d or with fewer bars
\* before the evaluation index than the largest window
SelectOne(s, d, series) ==
    LET idx == EvalIndex(series, d)
    IN /\ idx # 0
       /\ idx - 1 >= LargestWindow(s)
       /\ Passes(s, series, idx)

NoOutcome == [picks |-> <<>>, raised |-> FALSE]

\* the columns every bar of an OHLCV frame must carry
RequiredFields == {"date", "high", "low", "close"}

\* the columns of a frame are those of its rows
HasRequiredFields(series) ==
    Len(series) > 0 => RequiredFields \subseteq DOMAIN series[1]

\* select: the codes of the instruments that pass, in the order the universe
\* enumerates them
Select(s, d, data) ==
    IF \E i \in 1..Len(data) : ~HasRequiredFields(data[i].series)
    THEN [picks |-> <<>>, raised |-> TRUE]
    ELSE LET hit == SelectSeq(data, LAMBDA e : SelectOne(s, d, e.series))
         IN [picks |-> [i \in 1..Len(hit) |-> hit[i].code],
             raised |-> FALSE]

-----------------------------------------------------------------------------
(* Indicator specification: every short series over PriceVals, every window *)

\* bars of the data model: low <= close <= high
BarSet == {[date |-> 0, high |-> h, low |-> l, close |-> c] :
              h \in PriceVals, l \in PriceVals, c \in PriceVals}

ValidBars == {b \in BarSet : b.low <= b.close /\ b.close <= b.high}

\* dates are strictly increasing: the i-th bar is dated 2 * i
DateOf(i) == 2 * i

SelIdle ==
    /\ sel = [class |-> "none"]
    /\ tradeDate = 0
    /\ phase = "idle"
    /\ tail = 0
    /\ outcome = NoOutcome
    /\ outcomePast = NoOutcome

RunIdle ==
    /\ dir = {}
    /\ tickers = "all"
    /\ dateArg = "none"
    /\ cfgs = <<>>
    /\ listing = <<>>
    /\ frames = <<>>
    /\ pc = "idle"
    /\ cur = 0
    /\ reports = <<>>
    /\ errlog = <<>>
    /\ attempted = {}
    /\ built = {}

NoVerdict == [picked |-> FALSE, j_quantile |-> NaN, uptrend |-> FALSE,
              rising |-> FALSE]

PredIdle ==
    /\ hist = <<>>
    /\ verdict = NoVerdict

FetchIdle ==
    /\ disk = <<>>
    /\ task = <<>>

IndInit ==
    /\ bars = <<>>
    /\ n \in (1..MaxN) \cup {KDJWindow}
    /\ SelIdle
    /\ RunIdle
    /\ PredIdle
    /\ FetchIdle

AppendBar ==
    /\ Len(bars) < MaxLen
    /\ \E b \in ValidBars :
           bars' = Append(bars, [b EXCEPT !.date = DateOf(Len(bars) + 1)])
    /\ UNCHANGED <<n, selVars, runVars, predVars, fetchVars>>

IndNext == AppendBar

SpecInd == IndInit /\ [][IndNext]_vars

-----------------------------------------------------------------------------
(* Selector specification: one growing instrument beside a reference one *)

LongBar(c, i) == [date |-> DateOf(i), high |-> c, low |-> c, close |-> c]

FlatSeries(c, len) == [i \in 1..len |-> LongBar(c, i)]

\* a long decline ended by an upturn on its last bar, dated up to day 0
RefClose(i) == IF i <= 24 THEN 10 ELSE IF i <= 26 THEN 1 ELSE 2

RefSeries ==
    [i \in 1..27 |-> [LongBar(RefClose(i), i) EXCEPT !.date = DateOf(i) - 54]]

Universe(series) ==
    <<[code |-> "A", series |-> series], [code |-> "B", series |-> RefSeries]>>

\* the universe without the bars dated after d
Truncate(series, d) == SelectSeq(series, LAMBDA b : b.date <= d)

UniversePast(data, d) ==
    [i \in 1..Len(data) |->
        [code |-> data[i].code, series |-> Truncate(data[i].series, d)]]

SelChoices ==
    {[class |-> "BBIShortLongSelector",
      params |-> [n_short |-> 1, n_long |-> 2, m |-> c[1], bbi_min_window |-> 2,
                  max_window |-> c[2], bbi_q_threshold |-> Rat(1, 5)]] :
        c \in {<<1, 3>>, <<2, 26>>}}

\* Scenario B: BBIShortLongSelector(n_short=3, n_long=21, m=3,
\* bbi_min_window=2, max_window=60, bbi_q_threshold=0.2)
ScenarioBSelector ==
    [class |-> "BBIShortLongSelector",
     params |-> [n_short |-> 3, n_long |-> 21, m |-> 3, bbi_min_window |-> 2,
                 max_window |-> 60, bbi_q_threshold |-> Rat(1, 5)]]

\* bars of quiet history before the scenario's last bars
ScenarioBPrefix == 60

\* the days before the first bar, and the days of the latest bars
TradeDates(series) ==
    {0, 1} \cup {DateOf(i) + e :
                    i \in Larger(1, Len(series) - MaxFuture)..Len(series),
                    e \in {0, 1}}

SelInit ==
    /\ \/ /\ bars \in {FlatSeries(c, len) :
                         c \in LongPrices, len \in PrefixLens}
          /\ sel \in SelChoices
       \/ /\ bars = FlatSeries(2, ScenarioBPrefix)
          /\ sel = ScenarioBSelector
    /\ n = 1
    /\ tradeDate = 0
    /\ phase = "history"
    /\ tail = 0
    /\ outcome = NoOutcome
    /\ outcomePast = NoOutcome
    /\ RunIdle
    /\ PredIdle
    /\ FetchIdle

AppendLong ==
    /\ phase = "history"
    /\ tail < MaxTail
    /\ \E c \in LongPrices : bars' = Append(bars, LongBar(c, Len(bars) + 1))
    /\ tail' = tail + 1
    /\ UNCHANGED <<n, sel, tradeDate, phase, outcome, outcomePast, runVars,
                   predVars, fetchVars>>

RunSelect ==
    /\ phase = "history"
    /\ \E d \in TradeDates(bars) :
           /\ tradeDate' = d
           /\ outcome' = Select(sel, d, Universe(bars))
           /\ outcomePast' = Select(sel, d, UniversePast(Universe(bars), d))
    /\ phase' = "selected"
    /\ UNCHANGED <<bars, n, sel, tail, runVars, predVars, fetchVars>>

SelNext == AppendLong \/ RunSelect

SpecSel == SelInit /\ [][SelNext]_vars

-----------------------------------------------------------------------------
(* Runner specification: one run of main() over a data directory *)

\* cfg.get(key, default) of a configuration object
Get(cfg, key, default) == IF key \in DOMAIN cfg THEN cfg[key] ELSE default

\* the classes the selector module provides
Registry == {"BBIKDJSelector", "BBIShortLongSelector",
             "BreakoutVolumeKDJSelector", "PeakKDJSelector"}

\* the keyword arguments a selector class is constructed with
ParamNames(cls) ==
    CASE cls = "BBIShortLongSelector" ->
             {"n_short", "n_long", "m", "bbi_min_window", "max_window",
              "bbi_q_threshold"}
      [] OTHER -> {}

\* cls(**params) raises TypeError unless the keywords are the constructor's
Accepts(cls, params) == DOMAIN params = ParamNames(cls)

Failure(kind, name) ==
    [ok |-> FALSE, kind |-> kind, names |-> name, alias |-> "",
     selector |-> [class |-> "none"]]

InstantiateSelectorUnnamed(cfg) ==
    IF ~("class" \in DOMAIN cfg /\ cfg.class # "")
    THEN Failure("ValueError", "")
    ELSE IF cfg.class \notin Registry
    THEN Failure("ImportError", "")
    ELSE LET params == Get(cfg, "params", <<>>)
         IN IF ~Accepts(cfg.class, params)
            THEN Failure("TypeError", "")
            ELSE [ok |-> TRUE, kind |-> "", names |-> "",
                  alias |-> Get(cfg, "alias", cfg.class),
                  selector |-> [class |-> cfg.class, params |-> params]]

\* instantiate_selector: the alias and the selector, or the exception raised;
\* names is the class name the exception's message carries
InstantiateSelector(cfg) ==
    IF ~("class" \in DOMAIN cfg /\ cfg.class # "")
    THEN Failure("ValueError", "")
    ELSE IF cfg.class \notin Registry
    THEN Failure("ImportError", cfg.class)
    ELSE LET params == Get(cfg, "params", <<>>)
         IN IF ~Accepts(cfg.class, params)
            THEN Failure("TypeError", "")
            ELSE [ok |-> TRUE, kind |-> "", names |-> "",
                  alias |-> Get(cfg, "alias", cfg.class),
                  selector |-> [class |-> cfg.class, params |-> params]]

Effect(kind, alias, picks, err, name) ==
    [kind |-> kind, alias |-> alias, picks |-> picks, err |-> err,
     names |-> name]

LoopBodyUnguarded(cfg, d, data) ==
    IF Get(cfg, "activate", "true") = "false"
    THEN Effect("skip", "", <<>>, "", "")
    ELSE LET r == InstantiateSelector(cfg)
         IN IF ~r.ok
            THEN Effect("crash", "", <<>>, r.kind, r.names)
            ELSE LET res == Select(r.selector, d, data)
                 IN IF res.raised
                    THEN Effect("crash", "", <<>>, "select", "")
                    ELSE Effect("report", r.alias, res.picks, "", "")

LoopBodyQuietWhenEmpty(cfg, d, data) ==
    IF Get(cfg, "activate", "true") = "false"
    THEN Effect("skip", "", <<>>, "", "")
    ELSE LET r == InstantiateSelector(cfg)
         IN IF ~r.ok
            THEN Effect("error", "", <<>>, r.kind, r.names)
            ELSE LET res == Select(r.selector, d, data)
                 IN IF res.raised
                    THEN Effect("crash", "", <<>>, "select", "")
                    ELSE IF res.picks = <<>>
                    THEN Effect("skip", "", <<>>, "", "")
                    ELSE Effect("report", r.alias, res.picks, "", "")

\* one iteration of the loop over the configurations: what it does with cfg.
\* activate is the JSON token of the flag; only the token false skips.
LoopBody(cfg, d, data) ==
    IF Get(cfg, "activate", "true") = "false"
    THEN Effect("skip", "", <<>>, "", "")
    ELSE LET r == InstantiateSelector(cfg)
         IN IF ~r.ok
            THEN Effect("error", "", <<>>, r.kind, r.names)
            ELSE LET res == Select(r.selector, d, data)
                 IN IF res.raised
                    THEN Effect("crash", "", <<>>, "select", "")
                    ELSE Effect("report", r.alias, res.picks, "", "")

\* the rows of the CSV files of the catalogue, in file order
CsvRows(code) ==
    CASE code = "A" -> RefSeries
      [] code = "B" ->
             [i \in 1..27 |->
                 [LongBar(2 * RefClose(i), i) EXCEPT !.date = DateOf(i) - 54]]
      [] code = "C" -> <<LongBar(2, 3), LongBar(1, 1), LongBar(1, 2)>>
      \* a file without the date column
      [] code = "D" -> <<[high |-> 1, low |-> 1, close |-> 1]>>
      \* a file without the close column
      [] code = "E" -> <<[date |-> DateOf(1), high |-> 1, low |-> 1]>>

\* read_csv(fp, parse_dates=["date"]) raises when the file has no date column
ReadCsvRaises(code) == \E i \in 1..Len(CsvRows(code)) :
                           "date" \notin DOMAIN CsvRows(code)[i]

\* read_csv(...).sort_values("date")
ReadCsv(code) == SortSeq(CsvRows(code), LAMBDA a, b : a.date < b.date)

RECURSIVE LoadDataFromSameFrame(_, _, _, _)
LoadDataFromSameFrame(d, codes, i, fr) ==
    IF i > Len(codes) THEN fr
    ELSE IF codes[i] \notin d THEN LoadDataFromSameFrame(d, codes, i + 1, fr)
    ELSE IF \E k \in 1..Len(fr) : fr[k].code = codes[i]
    THEN LoadDataFromSameFrame(d, codes, i + 1, fr)
    ELSE LoadDataFromSameFrame(
             d, codes, i + 1,
             Append(fr, [code |-> codes[i],
                         series |-> IF fr = <<>> THEN ReadCsv(codes[i])
                                    ELSE fr[1].series]))

RECURSIVE LoadDataFrom(_, _, _, _)
LoadDataFrom(d, codes, i, fr) ==
    IF i > Len(codes) THEN fr
    ELSE IF codes[i] \notin d THEN LoadDataFrom(d, codes, i + 1, fr)
    ELSE IF \E k \in 1..Len(fr) : fr[k].code = codes[i]
    THEN LoadDataFrom(d, codes, i + 1, fr)
    ELSE LoadDataFrom(d, codes, i + 1,
                      Append(fr, [code |-> codes[i],
                                  series |-> ReadCsv(codes[i])]))

\* load_data: the frames of the codes that have a file, in the order of codes
LoadData(d, codes) == LoadDataFrom(d, codes, 1, <<>>)

\* load_data propagates the exception of a file it cannot parse
LoadDataRaises(d, codes) ==
    \E i \in 1..Len(codes) : codes[i] \in d /\ ReadCsvRaises(codes[i])

\* the latest bar date of the universe
MaxDate(data) ==
    SetMax({data[i].series[Len(data[i].series)].date : i \in 1..Len(data)})

\* the orders in which the files of a directory can be listed
Perms(S) ==
    {f \in [1..Cardinality(S) -> S] :
        \A i, j \in 1..Cardinality(S) : f[i] = f[j] => i = j}

Dirs == {{}, {"A", "B", "C"}}

TickerArgs == {[all |-> TRUE, codes |-> <<>>],
               [all |-> FALSE, codes |-> <<"B", "X", "A">>]}

DateArgs == {[given |-> FALSE, date |-> 0], [given |-> TRUE, date |-> 0],
             [given |-> TRUE, date |-> -100]}

GoodParams == [n_short |-> 1, n_long |-> 2, m |-> 1, bbi_min_window |-> 2,
               max_window |-> 3, bbi_q_threshold |-> Rat(1, 5)]

BadParams == [n_short |-> 1, n_long |-> 2, window |-> 3]

CfgChoices ==
    {[class |-> "BBIShortLongSelector", alias |-> "fill", activate |-> "true",
      params |-> GoodParams],
     [class |-> "BBIShortLongSelector", params |-> GoodParams],
     [class |-> "BBIShortLongSelector", activate |-> "false",
      params |-> GoodParams],
     [class |-> "BBIShortLongSelector", activate |-> "0",
      params |-> GoodParams],
     [class |-> "NoSuchSelector", params |-> GoodParams],
     [alias |-> "anonymous", params |-> GoodParams],
     [class |-> "BBIShortLongSelector", params |-> BadParams]}

CfgLists == UNION {[1..k -> CfgChoices] : k \in 1..MaxCfgs}

Init ==
    /\ bars = <<>>
    /\ n = 1
    /\ SelIdle
    /\ dir \in Dirs
    /\ tickers \in TickerArgs
    /\ dateArg \in DateArgs
    /\ cfgs \in CfgLists
    /\ listing = <<>>
    /\ frames = <<>>
    /\ pc = "start"
    /\ cur = 1
    /\ reports = <<>>
    /\ errlog = <<>>
    /\ attempted = {}
    /\ built = {}
    /\ PredIdle
    /\ FetchIdle

\* main() up to the loop: enumerate the codes, load them, fix the trade date
LoadUniverse ==
    /\ pc = "start"
    /\ \E codes \in (IF tickers.all THEN Perms(dir) ELSE {tickers.codes}) :
           LET fr == LoadData(dir, codes)
           IN /\ listing' = codes
              /\ IF codes = <<>>
                 THEN /\ pc' = "exit"
                      /\ UNCHANGED <<frames, tradeDate>>
                 ELSE IF LoadDataRaises(dir, codes)
                 THEN /\ pc' = "crashed"
                      /\ UNCHANGED <<frames, tradeDate>>
                 ELSE IF fr = <<>>
                 THEN /\ pc' = "exit"
                      /\ UNCHANGED <<frames, tradeDate>>
                 ELSE /\ frames' = fr
                      /\ tradeDate' = IF dateArg.given THEN dateArg.date
                                      ELSE MaxDate(fr)
                      /\ pc' = "loop"
    /\ UNCHANGED <<bars, n, sel, phase, tail, outcome, outcomePast, dir,
                   tickers, dateArg, cfgs, cur, reports, errlog, attempted,
                   built, predVars, fetchVars>>

\* one iteration of the loop over the configurations
RunCfg ==
    /\ pc = "loop"
    /\ cur <= Len(cfgs)
    /\ LET eff == LoopBody(cfgs[cur], tradeDate, frames)
       IN /\ attempted' = IF eff.kind = "skip" THEN attempted
                          ELSE attempted \cup {cur}
          /\ built' = IF eff.kind = "report" THEN built \cup {cur} ELSE built
          /\ errlog' = IF eff.kind = "error"
                       THEN Append(errlog, [cfg |-> cur, kind |-> eff.err,
                                            names |-> eff.names])
                       ELSE errlog
          /\ reports' = IF eff.kind = "report"
                        THEN Append(reports, [cfg |-> cur, alias |-> eff.alias,
                                              date |-> tradeDate,
                                              picks |-> eff.picks])
                        ELSE reports
          /\ pc' = IF eff.kind = "crash" THEN "crashed" ELSE pc
    /\ cur' = cur + 1
    /\ UNCHANGED <<bars, n, selVars, dir, tickers, dateArg, cfgs, listing,
                   frames, predVars, fetchVars>>

\* the loop is exhausted and main() returns
Finish ==
    /\ pc = "loop"
    /\ cur > Len(cfgs)
    /\ pc' = "done"
    /\ UNCHANGED <<bars, n, selVars, dir, tickers, dateArg, cfgs, listing,
                   frames, cur, reports, errlog, attempted, built,
                   predVars, fetchVars>>

Next == LoadUniverse \/ RunCfg \/ Finish

Spec == Init /\ [][Next]_vars

\* data directories that hold a structurally invalid file
InvalidDirs == {{"A", "D"}, {"A", "E"}}

\* a run over any data directory, valid or not
InitAnyDir ==
    /\ bars = <<>>
    /\ n = 1
    /\ SelIdle
    /\ dir \in Dirs \cup InvalidDirs
    /\ tickers \in TickerArgs \cup {[all |-> FALSE, codes |-> <<"E", "D">>]}
    /\ dateArg \in DateArgs
    /\ cfgs \in CfgLists
    /\ listing = <<>>
    /\ frames = <<>>
    /\ pc = "start"
    /\ cur = 1
    /\ reports = <<>>
    /\ errlog = <<>>
    /\ attempted = {}
    /\ built = {}
    /\ PredIdle
    /\ FetchIdle

SpecAnyDir == InitAnyDir /\ [][Next]_vars

-----------------------------------------------------------------------------
(* Predicate specification: the reference evaluation of the four           *)
(* strategies at the last row of one instrument, over rows that carry the  *)
(* indicator columns the evaluation is handed                              *)

Row(h, l, c, v, j, b, dif) ==
    [high |-> h, low |-> l, close |-> c, volume |-> v, j |-> j, bbi |-> b,
     dif |-> dif]

\* values of the J column: undefined, low, high
JVals == {NaN, RInt(0), RInt(10)}

\* the rows a strategy is explored with: the columns it reads vary
RowsFor(cls) ==
    CASE cls = "PeakKDJSelector" ->
             {Row(hl[1], hl[2], hl[2], 1, j, NaN, RInt(0)) :
                 hl \in {<<1, 1>>, <<3, 2>>}, j \in JVals}
      [] cls = "BreakoutVolumeKDJSelector" ->
             {Row(c, c, c, v, j, NaN, RInt(0)) :
                 c \in {1, 2}, v \in {0, 1}, j \in JVals}
      [] cls = "BBIKDJSelector" ->
             {Row(cd[1], cd[1], cd[1], 1, j, b, RInt(cd[2])) :
                 cd \in {<<1, 1>>, <<2, 1>>, <<1, -1>>},
                 j \in {RInt(0), RInt(10)}, b \in {RInt(1), RInt(2), NaN}}
      [] cls = "BBIShortLongSelector" ->
             {Row(c, c, c, 1, NaN, NaN, RInt(0)) : c \in {1, 2}}

\* analyze_stock_data: the rows of a series with its J and BBI columns
Analyze(series) ==
    LET kdj == KDJ(series, KDJWindow)
        bbi == BBI(series)
    IN [i \in 1..Len(series) |->
           Row(series[i].high, series[i].low, series[i].close, 1, kdj.j[i],
               bbi[i], RInt(0))]

FlatLens == {1, 2, 25}

\* perfectly flat series, analysed
FlatInputs == {Analyze(FlatSeries(c, len)) : c \in {1, 2}, len \in FlatLens}

PredChoices ==
    {[class |-> "PeakKDJSelector",
      params |-> [j_threshold |-> RInt(5), max_window |-> w,
                  fluc_threshold |-> Rat(3, 100), j_q_threshold |-> Rat(1, 10),
                  gap_threshold |-> Rat(1, 5)]] : w \in {1, 2}}
    \cup
    \* thresholds that every defined value exceeds
    {[class |-> "PeakKDJSelector",
      params |-> [j_threshold |-> RInt(-1), max_window |-> 2,
                  fluc_threshold |-> RInt(-1), j_q_threshold |-> Rat(1, 10),
                  gap_threshold |-> RInt(-1)]]}
    \cup
    {[class |-> "BreakoutVolumeKDJSelector",
      params |-> [j_threshold |-> RInt(5), j_q_threshold |-> Rat(1, 10),
                  up_threshold |-> RInt(3),
                  volume_threshold |-> Rat(6667, 10000), offset |-> o,
                  max_window |-> 2, price_range_pct |-> RInt(1)]] :
        o \in {1, 2}}
    \cup
    {[class |-> "BBIKDJSelector",
      params |-> [j_threshold |-> RInt(5), bbi_min_window |-> w,
                  max_window |-> 2, price_range_pct |-> Rat(1, 2),
                  bbi_q_threshold |-> Rat(1, 10),
                  j_q_threshold |-> Rat(1, 10)]] : w \in {1, 2}}
    \cup
    {[class |-> "BBIShortLongSelector", params |-> GoodParams]}

\* Scenario A: 90 bars whose close is 118 up to bar 31 and then rises by 1 a
\* bar to 177, J 100 until the final ten bars and 20, 18, ..., 2 in them,
\* DIF 1 throughout
ScenarioLen == 90

ScenarioBars ==
    [i \in 1..ScenarioLen |->
        LET c == IF i <= 31 THEN 118 ELSE 118 + (i - 31)
        IN [date |-> i, open |-> c, high |-> c, low |-> c, close |-> c]]

ScenarioA ==
    LET bbi == BBI(ScenarioBars)
    IN [i \in 1..ScenarioLen |->
           Row(ScenarioBars[i].high, ScenarioBars[i].low,
               ScenarioBars[i].close, 1,
               IF i <= ScenarioLen - 10 THEN RInt(100)
               ELSE RInt(2 * (ScenarioLen - i + 1)),
               bbi[i], RInt(1))]

ScenarioASelector ==
    [class |-> "BBIKDJSelector",
     params |-> [j_threshold |-> RInt(1), bbi_min_window |-> 20,
                 max_window |-> 60, price_range_pct |-> Rat(1, 2),
                 bbi_q_threshold |-> Rat(1, 10),
                 j_q_threshold |-> Rat(1, 10)]]

PredInit ==
    /\ bars = <<>>
    /\ n = 1
    /\ tradeDate = 0
    /\ tail = 0
    /\ outcome = NoOutcome
    /\ outcomePast = NoOutcome
    /\ RunIdle
    /\ FetchIdle
    /\ phase = "rows"
    /\ verdict = NoVerdict
    /\ \/ /\ sel \in PredChoices
          /\ hist \in {<<>>} \cup FlatInputs
       \/ /\ sel = ScenarioASelector
          /\ hist = ScenarioA

\* the instrument's history grows by one row
AppendRow ==
    /\ phase = "rows"
    /\ Len(hist) < MaxRows
    /\ \E r \in RowsFor(sel.class) : hist' = Append(hist, r)
    /\ UNCHANGED <<bars, n, selVars, runVars, verdict, fetchVars>>

\* the evaluation of the strategy at the latest row, with the intermediate
\* values the diagnostics report
Evaluate ==
    /\ phase = "rows"
    /\ Len(hist) >= 1
    /\ LET idx == Len(hist)
           bbi == Column(hist, "bbi")
       IN verdict' =
              [picked     |-> Passes(sel, hist, idx),
               j_quantile |-> IF sel.class = "BBIShortLongSelector" THEN NaN
                              ELSE JQuantile(sel.params, hist, idx),
               uptrend    |-> IF sel.class = "BBIKDJSelector"
                              THEN BBIDerivUptrend(
                                       bbi, sel.params.bbi_min_window)[idx]
                              ELSE FALSE,
               rising     |-> ThreePointRising(bbi, idx)]
    /\ phase' = "evaluated"
    /\ UNCHANGED <<bars, n, sel, tradeDate, tail, outcome, outcomePast,
                   runVars, hist, fetchVars>>

PredNext == AppendRow \/ Evaluate

SpecPred == PredInit /\ [][PredNext]_vars

-----------------------------------------------------------------------------
(* The fetch driver: fetch_kline.py *)

\* for attempt in range(1, 4)
MaxAttempts == 3

\* dates of the fetch driver are day numbers; pd.Timestamp.today() is day 3
Today == 3

\* --start and --end as main() hands them to every task
RequestedStart == 1
RequestedEnd == 2

\* a code or a file stem: the text "HK_" repeated pre times, then the digits
\* num; "00700" is Stem(0, 7) and "HK_00700" is Stem(1, 7)
Stem(pre, num) == [pre |-> pre, num |-> num]

\* csv_path = out_dir / f"{prefix}{code}.csv" with prefix "HK_" for market HK
CsvPath(code, market) ==
    IF market = "HK" THEN [code EXCEPT !.pre = @ + 1] ELSE code

AllStems == {Stem(0, 1), Stem(1, 7)}

KRow(d, src) == [date |-> d, src |-> src]

Absent == [exists |-> FALSE, ok |-> TRUE, rows |-> <<>>]
Unreadable == [exists |-> TRUE, ok |-> FALSE, rows |-> <<>>]
CsvFile(rows) == [exists |-> TRUE, ok |-> TRUE, rows |-> rows]

\* what the output directory may hold for one stem before the run
FileChoices ==
    {Absent, Unreadable,
     CsvFile(<<KRow(1, "old")>>),
     CsvFile(<<KRow(1, "old"), KRow(2, "old")>>),
     CsvFile(<<KRow(2, "old"), KRow(3, "old")>>)}

\* what one call of get_kline may do: raise, or return a frame
ProviderOutcomes ==
    {[raises |-> TRUE, rows |-> <<>>],
     [raises |-> FALSE, rows |-> <<>>],
     [raises |-> FALSE, rows |-> <<KRow(2, "new")>>],
     [raises |-> FALSE, rows |-> <<KRow(3, "new"), KRow(2, "new")>>],
     [raises |-> FALSE, rows |-> <<KRow(3, "new"), KRow(3, "new2")>>],
     [raises |-> FALSE, rows |-> <<KRow(4, "new")>>]}

DatesOf(rows) == {rows[i].date : i \in 1..Len(rows)}

\* existing["date"].max()
LastDate(rows) == CHOOSE d \in DatesOf(rows) : \A e \in DatesOf(rows) : e <= d

\* drop_duplicates(subset="date") keeps the last row of each date
DropDuplicatesKeepLast(rows) ==
    SelectSeq([i \in 1..Len(rows) |->
                  [row |-> rows[i],
                   keep |-> \A j \in (i + 1)..Len(rows) :
                                rows[j].date # rows[i].date]],
              LAMBDA e : e.keep)

\* drop_duplicates(subset="date"): the first row of each date is kept
DropDuplicates(rows) ==
    SelectSeq([i \in 1..Len(rows) |->
                  [row |-> rows[i],
                   keep |-> \A j \in 1..(i - 1) :
                                rows[j].date # rows[i].date]],
              LAMBDA e : e.keep)

RowsOf(marked) == [i \in 1..Len(marked) |-> marked[i].row]

\* sort_values("date")
SortByDate(rows) == SortSeq(rows, LAMBDA a, b : a.date < b.date)

\* validate: duplicates dropped, sorted by date; raises on a future date
Validate(rows) ==
    LET df == SortByDate(RowsOf(DropDuplicates(rows)))
    IN  [raises |-> \E d \in DatesOf(df) : d > Today, rows |-> df]

\* pd.concat([old_df, new_df]).drop_duplicates(subset="date").sort_values("date")
MergeFrames(old, new) == SortByDate(RowsOf(DropDuplicates(old \o new)))

\* last_date.date() >= end: the mutated skip test
UpToDateOrEqual(last, end) == last >= end

\* last_date.date() > pd.to_datetime(end).date()
UpToDate(last, end) == last > end

NewTask(code, market) ==
    [code |-> code, market |-> market, path |-> CsvPath(code, market),
     incremental |-> TRUE, start |-> RequestedStart, end |-> RequestedEnd,
     pc |-> "ready", attempt |-> 1, calls |-> 0, asked |-> <<>>,
     seen |-> Absent, ended |-> "no", wrote |-> FALSE, errors |-> 0,
     merging |-> FALSE, old |-> <<>>, new |-> <<>>, out |-> <<>>]

\* sorted(set(codes_from_filter) | set(local_codes)) as a list: codes without
\* the "HK_" text order before those with it, then by digits
RECURSIVE SortedCodes(_)
SortedCodes(S) ==
    IF S = {} THEN <<>>
    ELSE LET m == CHOOSE c \in S :
                      \A e \in S : \/ c.pre < e.pre
                                   \/ c.pre = e.pre /\ c.num <= e.num
         IN  <<m>> \o SortedCodes(S \ {m})

\* local_codes = [p.stem for p in out_dir.glob("*.csv")]
LocalCodes(d) == {s \in DOMAIN d : d[s].exists}

\* the tasks main() submits: one per A-share code, then one per HK code
Submitted(filter, d, hkCodes) ==
    LET codes == SortedCodes(filter \cup LocalCodes(d))
    IN  IF codes = <<>> THEN <<>>
        ELSE [i \in 1..Len(codes) |-> NewTask(codes[i], "A")]
             \o [i \in 1..Len(hkCodes) |-> NewTask(hkCodes[i], "HK")]

FilterChoices == {{}, {Stem(0, 1)}}
HkChoices == {<<>>, <<Stem(0, 7)>>}

FetchInit ==
    /\ bars = <<>>
    /\ n = 1
    /\ SelIdle
    /\ RunIdle
    /\ PredIdle
    /\ disk \in [AllStems -> FileChoices]
    /\ \E filter \in FilterChoices, hk \in HkChoices :
           task = Submitted(filter, disk, hk)

\* lines 337-347 of fetch_one: the look at the existing file
StartTask(t) ==
    /\ task[t].pc = "ready"
    /\ LET tk == task[t]
           f == disk[tk.path]
       IN  task' =
             [task EXCEPT ![t] =
                IF ~(tk.incremental /\ f.exists)
                THEN [tk EXCEPT !.pc = "loop"]
                ELSE IF ~f.ok
                THEN [tk EXCEPT !.pc = "loop", !.seen = f, !.errors = @ + 1]
                ELSE IF UpToDate(LastDate(f.rows), tk.end)
                THEN [tk EXCEPT !.pc = "done", !.ended = "uptodate",
                                !.seen = f]
                ELSE [tk EXCEPT !.pc = "loop", !.seen = f,
                                !.start = LastDate(f.rows)]]
    /\ UNCHANGED <<disk, indVars, selVars, runVars, predVars>>

\* the except branch extended by a fourth attempt
AfterFailureExtra(tk) ==
    IF tk.attempt = MaxAttempts + 1
    THEN [tk EXCEPT !.pc = "done", !.ended = "failed", !.errors = @ + 2]
    ELSE [tk EXCEPT !.attempt = @ + 1, !.errors = @ + 1]

\* except Exception: log, sleep, next attempt; after the third, the else
\* branch of the loop logs that the code was skipped
AfterFailure(tk) ==
    IF tk.attempt = MaxAttempts
    THEN [tk EXCEPT !.pc = "done", !.ended = "failed", !.errors = @ + 2]
    ELSE [tk EXCEPT !.attempt = @ + 1, !.errors = @ + 1]

\* one pass of the loop of fetch_one, lines 349-368: the provider call,
\* validate, and the read of the old file; the frame to write is then in hand
Attempt(t) ==
    /\ task[t].pc = "loop"
    /\ \E r \in ProviderOutcomes :
         LET tk == [task[t] EXCEPT !.calls = @ + 1,
                                   !.asked = Append(@, task[t].start)]
             f == disk[tk.path]
             v == Validate(r.rows)
         IN  task' =
               [task EXCEPT ![t] =
                  IF r.raises
                  THEN AfterFailure(tk)
                  ELSE IF r.rows = <<>>
                  THEN [tk EXCEPT !.pc = "done", !.ended = "empty"]
                  ELSE IF v.raises
                  THEN AfterFailure(tk)
                  ELSE IF f.exists /\ tk.incremental
                  THEN IF ~f.ok
                       THEN AfterFailure(tk)
                       ELSE [tk EXCEPT !.pc = "write", !.merging = TRUE,
                                       !.old = f.rows, !.new = r.rows,
                                       !.out = MergeFrames(f.rows, v.rows)]
                  ELSE [tk EXCEPT !.pc = "write", !.new = r.rows,
                                  !.out = v.rows]]
    /\ UNCHANGED <<disk, indVars, selVars, runVars, predVars>>

\* new_df.to_csv(csv_path, index=False); break
WriteCsv(t) ==
    /\ task[t].pc = "write"
    /\ disk' = [disk EXCEPT ![task[t].path] = CsvFile(task[t].out)]
    /\ task' = [task EXCEPT ![t] =
                   [@ EXCEPT !.pc = "done", !.wrote = TRUE,
                             !.ended = IF task[t].merging THEN "merged"
                                       ELSE "created"]]
    /\ UNCHANGED <<indVars, selVars, runVars, predVars>>

\* the worker threads take the submitted tasks in any interleaving
FetchNext ==
    \/ \E t \in 1..Len(task) : StartTask(t)
    \/ \E t \in 1..Len(task) : Attempt(t)
    \/ \E t \in 1..Len(task) : WriteCsv(t)

SpecFetch == FetchInit /\ [][FetchNext]_vars

-----------------------------------------------------------------------------
(* Runner claims *)

\* the configurations the loop has gone through
Processed == 1..(cur - 1)

Reported == {reports[k].cfg : k \in 1..Len(reports)}

Logged == {errlog[k].cfg : k \in 1..Len(errlog)}

\* the activation flag is the boolean false
FlagOff(cfg) == "activate" \in DOMAIN cfg /\ cfg.activate = "false"

\* the activation flag is true, or absent
FlagTrue(cfg) == "activate" \in DOMAIN cfg => cfg.activate = "true"

\* C1: a configuration whose construction fails (missing class, unknown
\* class, parameters the constructor rejects) is reported in the error log
\* and emits no report; the run does not abort, and every other active
\* configuration the loop has gone through, before or after the failing one,
\* is constructed and has its report; a finished run has gone through them all
C1_FailedConstructionSkipped ==
    /\ pc # "crashed"
    /\ pc = "done" => cur = Len(cfgs) + 1
    /\ \A j \in Processed :
           ~FlagOff(cfgs[j]) =>
               /\ j \in attempted
               /\ IF InstantiateSelector(cfgs[j]).ok
                  THEN j \in built /\ j \in Reported /\ j \notin Logged
                  ELSE j \notin built /\ j \notin Reported /\ j \in Logged

\* a finished run in which a failed construction is followed by a report
C1_Witness ==
    /\ pc = "done"
    /\ \E j, k \in 1..Len(cfgs) :
           /\ j < k
           /\ ~FlagOff(cfgs[j])
           /\ ~InstantiateSelector(cfgs[j]).ok
           /\ j \in Logged
           /\ k \in Reported

\* C2: a configuration is constructed and evaluated if and only if its
\* activation flag is true or absent; one whose flag is not true is never
\* handed to the constructor and emits no report
C2_ConstructedIffFlagTrue ==
    \A j \in Processed :
        /\ j \in attempted <=> FlagTrue(cfgs[j])
        /\ ~FlagTrue(cfgs[j]) => j \notin built /\ j \notin Reported

\* C3: a class name that is not registered yields no selector: the
\* configuration is not built and emits no report, and the error logged
\* for it is the import error whose message names that class
C3_UnknownNameIsError ==
    \A j \in Processed :
        LET cfg == cfgs[j]
        IN (/\ ~FlagOff(cfg)
            /\ "class" \in DOMAIN cfg
            /\ cfg.class # ""
            /\ cfg.class \notin Registry) =>
               /\ ~InstantiateSelector(cfg).ok
               /\ j \notin built
               /\ j \notin Reported
               /\ \E k \in 1..Len(errlog) :
                      /\ errlog[k].cfg = j
                      /\ errlog[k].kind = "ImportError"
                      /\ errlog[k].names = cfg.class

\* an unregistered class name has been looked up and logged
C3_Witness ==
    \E k \in 1..Len(errlog) :
        /\ errlog[k].kind = "ImportError"
        /\ errlog[k].names = "NoSuchSelector"
        /\ cfgs[errlog[k].cfg].class = "NoSuchSelector"

\* C4: the Pick Set of every report, order included, is the one the same
\* selector returns for the same trade date whatever the order in which the
\* files of the data directory were listed and loaded
C4_OrderIndependent ==
    \A k \in 1..Len(reports) :
        tickers.all =>
            \A other \in Perms(dir) :
                reports[k].picks =
                    Select(InstantiateSelector(cfgs[reports[k].cfg]).selector,
                           tradeDate, LoadData(dir, other)).picks

\* the universe is loaded and none of its instruments has a bar dated on or
\* before the trade date
NoBarForDate ==
    /\ pc \in {"loop", "done", "crashed"}
    /\ \A i \in 1..Len(frames) : EvalIndex(frames[i].series, tradeDate) = 0

-----------------------------------------------------------------------------
(* C8 *)

RollingHigh(i) == SeqMax(Window(Column(bars, "high"), i, n))

RollingLow(i) == SeqMin(Window(Column(bars, "low"), i, n))

\* C8: for every series, window n >= 1 and index i, RSV is undefined (NaN)
\* when fewer than n bars end at i or when the rolling high equals the
\* rolling low, and otherwise it is a number in [0, 100].
C8_RSVRange ==
    \A i \in 1..Len(bars) :
        LET r == RSV(bars, n)[i]
        IN IF i < n \/ RollingHigh(i) = RollingLow(i)
           THEN IsNaN(r)
           ELSE /\ IsNum(r)
                /\ 0 <= r.n
                /\ r.n <= 100 * r.d

\* a series holding a zero-range window, a short window and a proper value
C8_Witness ==
    /\ n = 2
    /\ Len(bars) = 3
    /\ IsNaN(RSV(bars, n)[1])
    /\ RollingHigh(2) = RollingLow(2)
    /\ IsNaN(RSV(bars, n)[2])
    /\ RSV(bars, n)[3] = RInt(50)

-----------------------------------------------------------------------------
(* C9 *)

\* v is the number num / den
IsRatio(v, num, den) == IsNum(v) /\ v.n * den = num * v.d

\* out is 2/3 * prev + 1/3 * input, undefined as soon as one of them is
SmoothedFrom(out, prev, input) ==
    IF IsNum(prev) /\ IsNum(input)
    THEN IsRatio(out, 2 * prev.n * input.d + input.n * prev.d,
                 3 * prev.d * input.d)
    ELSE IsNaN(out)

\* C9: the KDJ lines start at K[0] = D[0] = J[0] = 50 and at every later
\* index K[i] = 2/3 K[i-1] + 1/3 rsv[i], D[i] = 2/3 D[i-1] + 1/3 K[i] and
\* J[i] = 3 K[i] - 2 D[i], an undefined operand making the result undefined.
C9_KDJRecurrence ==
    LET rsv == RSV(bars, n)
        kdj == KDJ(bars, n)
    IN /\ Len(kdj.k) = Len(bars) /\ Len(kdj.d) = Len(bars)
       /\ Len(kdj.j) = Len(bars)
       /\ Len(bars) >= 1 =>
              /\ kdj.k[1] = RInt(50)
              /\ kdj.d[1] = RInt(50)
              /\ kdj.j[1] = RInt(50)
       /\ \A i \in 2..Len(bars) :
              /\ SmoothedFrom(kdj.k[i], kdj.k[i - 1], rsv[i])
              /\ SmoothedFrom(kdj.d[i], kdj.d[i - 1], kdj.k[i])
              /\ IF IsNum(kdj.k[i]) /\ IsNum(kdj.d[i])
                 THEN IsRatio(kdj.j[i],
                              3 * kdj.k[i].n * kdj.d[i].d
                                  - 2 * kdj.d[i].n * kdj.k[i].d,
                              kdj.k[i].d * kdj.d[i].d)
                 ELSE IsNaN(kdj.j[i])

\* the recurrence has run twice on defined values and moved K, D and J
C9_Witness ==
    /\ n = 2
    /\ Len(bars) = 3
    /\ KDJ(bars, n).k[2] = Rat(200, 3)
    /\ IsNum(KDJ(bars, n).j[3])
    /\ KDJ(bars, n).j[3] # RInt(50)
    /\ KDJ(bars, n).d[3] # KDJ(bars, n).k[3]

-----------------------------------------------------------------------------
(* C10 *)

CloseSum(i, w) == SumRange(Column(bars, "close"), i - w + 1, i)

\* C10: BBI at index i is the mean of the simple moving averages of close
\* over 3, 6, 12 and 24 bars ending at i, and it is undefined exactly at the
\* first 23 indices, where the 24-bar window is not filled.
C10_BBIMean ==
    LET bbi == BBI(bars)
    IN \A i \in 1..Len(bars) :
           IF i < 24
           THEN IsNaN(bbi[i])
           ELSE IsRatio(bbi[i],
                        8 * CloseSum(i, 3) + 4 * CloseSum(i, 6)
                            + 2 * CloseSum(i, 12) + CloseSum(i, 24),
                        96)

\* a series whose BBI is undefined at index 22 and moves between 23 and 24
C10_Witness ==
    /\ Len(bars) = 25
    /\ IsNaN(BBI(bars)[23])
    /\ IsNum(BBI(bars)[24])
    /\ RLt(BBI(bars)[25], BBI(bars)[24])

-----------------------------------------------------------------------------
(* C5 *)

Codes(result) == {result.picks[i] : i \in 1..Len(result.picks)}

\* C5: select evaluates each instrument at its latest bar dated on or before
\* the trade date and reads no later bar: the universe as loaded and the
\* universe cut after the trade date give the same Pick Set, the instrument
\* is picked exactly when the predicate holds on the last bar of its history
\* up to the trade date, and never when that history is empty.
C5_NoLookahead ==
    phase = "selected" =>
        LET past == Truncate(bars, tradeDate)
        IN /\ outcome = outcomePast
           /\ "A" \in Codes(outcome) <=>
                  /\ Len(past) >= 1
                  /\ Len(past) - 1 >= LargestWindow(sel)
                  /\ Passes(sel, past, Len(past))
           /\ Len(past) = 0 => "A" \notin Codes(outcome)

\* the instrument is picked on a trade date that a later bar follows
C5_Witness ==
    /\ phase = "selected"
    /\ "A" \in Codes(outcome)
    /\ Len(Truncate(bars, tradeDate)) < Len(bars)
    /\ bars[Len(bars)].close # bars[Len(bars) - 1].close

-----------------------------------------------------------------------------
(* C6 *)

-----------------------------------------------------------------------------
(* C14 *)

\* C14: among the instruments with enough history, BBIShortLongSelector
\* includes an instrument exactly when (a) SMA(n_short) crosses above
\* SMA(n_long) at one of the last m bars ending at the evaluation index, a
\* cross at an older bar not counting, and (b) BBI at the evaluation index
\* is below the quantile of BBI over the trailing bbi_min_window bars
C14_GoldenCrossPullback ==
    LET idx == EvalIndex(bars, tradeDate)
    IN (/\ phase = "selected"
        /\ sel.class = "BBIShortLongSelector"
        /\ idx >= 1
        /\ idx - 1 >= LargestWindow(sel)) =>
           LET p     == sel.params
               short == SMA(bars, p.n_short)
               long  == SMA(bars, p.n_long)
               bbi   == BBI(bars)
           IN "A" \in Codes(outcome) <=>
                  /\ \E i \in Larger(2, idx - p.m + 1)..idx :
                         /\ RLe(short[i - 1], long[i - 1])
                         /\ RGt(short[i], long[i])
                  /\ RLt(bbi[idx],
                         Quantile(TrailingWindow(bbi, idx, p.bbi_min_window),
                                  p.bbi_q_threshold))

-----------------------------------------------------------------------------
(* C11: bbiDerivativeUptrend(bbi, minWindow) is true at index i iff         *)
(* bbi[k] >= bbi[k-1] holds for each of the last minWindow steps ending at  *)
(* i, a decreasing step or an undefined value in the run makes it false,    *)
(* and with minWindow = 2 it coincides with the 3-point check on            *)
(* bbi[i-2], bbi[i-1], bbi[i]                                               *)

\* a step k-1 -> k that is defined on both ends and does not decrease
StepHolds(bbi, k) ==
    /\ k >= 2
    /\ IsNum(bbi[k]) /\ IsNum(bbi[k - 1])
    /\ bbi[k].n * bbi[k - 1].d >= bbi[k - 1].n * bbi[k].d

C11_UptrendIsThreePoint ==
    (phase = "evaluated" /\ sel.class = "BBIKDJSelector") =>
        LET idx == Len(hist)
            bbi == Column(hist, "bbi")
            w   == sel.params.bbi_min_window
        IN /\ verdict.uptrend <=>
                  \A k \in (idx - w + 1)..idx : StepHolds(bbi, k)
           /\ (w = 2 /\ idx >= 3) => (verdict.uptrend <=> verdict.rising)

-----------------------------------------------------------------------------
(* C12: every quantile threshold is the linear-interpolation percentile     *)
(* over the closed trailing window [max(0, idx-window+1), idx], exactly     *)
(* min(window, idx+1) entries ending at idx, undefined entries ignored;     *)
(* when the whole window is undefined the comparison with the threshold is  *)
(* false                                                                    *)

JStrategies ==
    {"BBIKDJSelector", "BreakoutVolumeKDJSelector", "PeakKDJSelector"}

C12_QuantileClosedWindow ==
    (phase = "evaluated" /\ sel.class \in JStrategies) =>
        LET idx == Len(hist)
            j   == Column(hist, "j")
            win == TrailingWindow(j, idx, sel.params.max_window)
        IN /\ Len(win) = IF sel.params.max_window < idx
                         THEN sel.params.max_window ELSE idx
           /\ verdict.j_quantile = Quantile(win, sel.params.j_q_threshold)
           /\ (\A k \in 1..Len(win) : IsNaN(win[k])) => ~verdict.picked

-----------------------------------------------------------------------------
(* C13: BBIKDJSelector includes an instrument iff all five conditions hold  *)
(* at the evaluation index: BBI sustained uptrend over bbi_min_window,      *)
(* J[idx] above the quantile of J over the trailing max_window, J[idx]      *)
(* above j_threshold, DIF[idx] > 0, and the close range over the trailing   *)
(* max_window at most price_range_pct                                       *)

C13_BBIKDJFiveConditions ==
    (phase = "evaluated" /\ sel.class = "BBIKDJSelector") =>
        LET idx == Len(hist)
            p   == sel.params
        IN verdict.picked <=>
               /\ verdict.uptrend
               /\ RGt(hist[idx].j, verdict.j_quantile)
               /\ RGt(hist[idx].j, p.j_threshold)
               /\ RGt(hist[idx].dif, RInt(0))
               /\ RLe(PriceRange(hist, idx, p.max_window), p.price_range_pct)

-----------------------------------------------------------------------------
(* C15: BreakoutVolumeKDJSelector includes an instrument iff J[idx] is      *)
(* above the quantile of J over max_window, the close rose by more than     *)
(* up_threshold percent against the bar offset bars before idx, the volume  *)
(* ratio against that bar exceeds volume_threshold, the close range over    *)
(* max_window is at most price_range_pct and J[idx] > j_threshold; the      *)
(* reference bar is exactly offset bars before idx, never clamped to the    *)
(* first bar                                                                *)

C15_BreakoutExactOffset ==
    (phase = "evaluated" /\ sel.class = "BreakoutVolumeKDJSelector") =>
        LET idx == Len(hist)
            p   == sel.params
            ref == idx - p.offset
        IN verdict.picked <=>
               /\ ref >= 1
               /\ RGt(hist[idx].j, verdict.j_quantile)
               /\ RGt(RMul(RDiv(RInt(hist[idx].close - hist[ref].close),
                                RInt(hist[ref].close)),
                           RInt(100)),
                      p.up_threshold)
               /\ RGt(RDiv(RInt(hist[idx].volume), RInt(hist[ref].volume)),
                      p.volume_threshold)
               /\ RLe(PriceRange(hist, idx, p.max_window), p.price_range_pct)
               /\ RGt(hist[idx].j, p.j_threshold)

-----------------------------------------------------------------------------
(* C16: PeakKDJSelector includes an instrument iff J[idx] is above the      *)
(* quantile of J over max_window, (high - low) / low at idx exceeds         *)
(* fluc_threshold, the gap (low[idx] - high[idx-1]) / high[idx-1] exceeds   *)
(* gap_threshold and J[idx] > j_threshold; at the first bar the gap         *)
(* condition is false and the instrument is never picked                    *)

-----------------------------------------------------------------------------
(* C17: an arithmetic degeneracy (zero high/low range in RSV, division by a *)
(* zero price or a zero reference volume) yields an undefined value, every  *)
(* comparison against it is false and nothing is raised, so the instrument  *)
(* is not picked                                                            *)

C17_DegenerateNotPicked ==
    (phase = "evaluated" /\ sel.class \in JStrategies) =>
        LET idx == Len(hist)
        IN /\ IsNaN(hist[idx].j) => ~verdict.picked
           /\ sel.class = "BreakoutVolumeKDJSelector" =>
                  LET ref == Larger(1, idx - sel.params.offset)
                  IN hist[ref].volume = 0 => ~verdict.picked

-----------------------------------------------------------------------------
(* C18: for BBIKDJSelector, BreakoutVolumeKDJSelector and PeakKDJSelector,  *)
(* with everything else fixed, the picks under a higher j_threshold are a   *)
(* subset of the picks under a lower j_threshold                            *)

\* thresholds below and above the configured one
JThresholds == {RInt(-1), RInt(20)}

\* the same evaluation with j_threshold replaced by t
PassesAt(t) ==
    Passes([sel EXCEPT !.params.j_threshold = t], hist, Len(hist))

-----------------------------------------------------------------------------
(* C19: Scenario C: on a perfectly flat series (open = high = low = close   *)
(* for every bar) each of the four strategies picks nothing, for every      *)
(* trade date and parameter setting                                         *)

C19_FlatSeriesNeverPicked ==
    (phase = "evaluated" /\ hist \in FlatInputs) => ~verdict.picked

\* a flat series evaluated past its first bar under thresholds that every
\* defined value exceeds
C19_Witness ==
    /\ phase = "evaluated"
    /\ hist \in FlatInputs
    /\ Len(hist) >= 2
    /\ sel.class = "PeakKDJSelector"
    /\ RLt(sel.params.fluc_threshold, RInt(0))
    /\ RLt(sel.params.gap_threshold, RInt(0))
    /\ IsNaN(hist[Len(hist)].j)

-----------------------------------------------------------------------------
(* C20: Scenario A: an instrument whose BBI is strictly increasing over the *)
(* final 30 bars, whose J lies below the 10th percentile of its trailing    *)
(* 60-bar window in each of the final 10 bars, whose DIF is positive        *)
(* throughout and whose 60-bar close range is about 50% is included by      *)
(* BBIKDJSelector{j_threshold:1, bbi_min_window:20, max_window:60,          *)
(* price_range_pct:0.5, bbi_q_threshold:0.1, j_q_threshold:0.10} on the     *)
(* last date                                                                *)

ScenarioAHolds(rows) ==
    LET last  == Len(rows)
        bbi   == Column(rows, "bbi")
        j     == Column(rows, "j")
        close == TrailingWindow(Column(rows, "close"), last, 60)
        range == RDiv(RInt(SeqMax(close) - SeqMin(close)),
                      RInt(SeqMin(close)))
    IN /\ last > 60
       /\ \A i \in (last - 28)..last : RGt(bbi[i], bbi[i - 1])
       /\ \A i \in (last - 9)..last :
              RLt(j[i], Quantile(TrailingWindow(j, i, 60), Rat(1, 10)))
       /\ \A i \in 1..last : RGt(rows[i].dif, RInt(0))
       /\ RLe(Rat(9, 20), range) /\ RLe(range, Rat(1, 2))

C20_ScenarioAIncluded ==
    (/\ phase = "evaluated"
     /\ sel = ScenarioASelector
     /\ ScenarioAHolds(hist)) => verdict.picked

-----------------------------------------------------------------------------
(* C21: Scenario B: in a two-instrument universe where only one instrument  *)
(* has an SMA(3)/SMA(21) golden cross 2 bars before the trade date with its *)
(* BBI at the 20th percentile of its trailing 2-bar window,                 *)
(* BBIShortLongSelector{n_short:3, n_long:21, m:3, bbi_min_window:2,        *)
(* bbi_q_threshold:0.2} returns exactly that instrument                     *)

\* the series has the scenario's cross and BBI pullback at index idx
ScenarioBHolds(series, idx) ==
    /\ idx - 1 >= ScenarioBSelector.params.max_window
    /\ CrossUp(SMA(series, 3), SMA(series, 21), idx - 2)
    /\ RLt(BBI(series)[idx],
           Quantile(TrailingWindow(BBI(series), idx, 2), Rat(1, 5)))

C21_ScenarioBPicksOne ==
    LET idx == EvalIndex(bars, tradeDate)
    IN (/\ phase = "selected"
        /\ sel = ScenarioBSelector
        /\ idx >= 1
        /\ ScenarioBHolds(bars, idx)) => Codes(outcome) = {"A"}

-----------------------------------------------------------------------------
(* C22: structurally invalid OHLCV input (an instrument missing a required  *)
(* field) is the one condition that aborts the run: it stops the whole run  *)
(* with an error instead of skipping the instrument, and every other        *)
(* failure (bad configuration, insufficient history, arithmetic degeneracy) *)
(* lets the run continue                                                    *)

\* main() has returned or stopped
Ended == pc \in {"done", "crashed", "exit"}

\* one of the files the run reads lacks a required column
InvalidInput ==
    \E i \in 1..Len(listing) :
        /\ listing[i] \in dir
        /\ ~(RequiredFields \subseteq DOMAIN CsvRows(listing[i])[1])

C22_OnlyInvalidInputAborts ==
    Ended => (pc \in {"crashed", "exit"} <=> InvalidInput)

-----------------------------------------------------------------------------
(* C23: no state is shared across instruments or selectors: whether an      *)
(* instrument is picked by a selector depends only on that instrument's own *)
(* series, the trade date and the selector's parameters, whatever other     *)
(* instruments the universe holds and whatever selectors were evaluated     *)
(* earlier in the run on the same universe                                  *)

\* the codes the run has loaded
Loaded == {frames[i].code : i \in 1..Len(frames)}

\* the selector evaluated alone on the instrument's own file picks it
PickedAlone(s, d, code) ==
    Select(s, d, <<[code |-> code, series |-> ReadCsv(code)]>>).picks
        = <<code>>

-----------------------------------------------------------------------------
(* C24: for every window of values and all q1 <= q2 in [0, 1],              *)
(* Quantile(window, q1) <= Quantile(window, q2)                             *)

\* quantile levels around the configured one, in increasing order
QGrid == <<RInt(0), Rat(1, 2), RInt(1)>>

\* the configured level lies between the first two levels of the grid
C24_QuantileMonotone ==
    (phase = "evaluated" /\ sel.class \in JStrategies) =>
        LET win == IlocWindow(Column(hist, "j"), Len(hist),
                              sel.params.max_window)
            at  == [i \in 1..Len(QGrid) |-> Quantile(win, QGrid[i])]
        IN (\E k \in 1..Len(win) : ~IsNaN(win[k])) =>
               /\ RLe(QGrid[1], sel.params.j_q_threshold)
               /\ RLe(sel.params.j_q_threshold, QGrid[2])
               /\ RLe(at[1], verdict.j_quantile)
               /\ RLe(verdict.j_quantile, at[2])
               /\ RLe(at[2], at[3])

\* a window of distinct values whose quantile rises strictly with the level
C24_Witness ==
    /\ phase = "evaluated"
    /\ sel.class \in JStrategies
    /\ LET win == IlocWindow(Column(hist, "j"), Len(hist),
                             sel.params.max_window)
       IN /\ Len(win) = 3
          /\ RGt(win[1], win[2])
          /\ RLt(verdict.j_quantile, Quantile(win, Rat(1, 2)))
          /\ RLt(Quantile(win, Rat(1, 2)), Quantile(win, RInt(1)))

-----------------------------------------------------------------------------
(* C25: the runner emits exactly one report per configuration that is       *)
(* active and constructible, in the order of the configuration list, each   *)
(* carrying the configuration's alias (the class name when none is given),  *)
(* the run's single trade date (the requested date, or the maximum bar date *)
(* of the universe when none is requested) and the Pick Set; the same       *)
(* inputs give the same sequence of reports on every run                    *)

\* the configurations that are active and constructible, in list order
ActiveConstructible ==
    SelectSeq([j \in 1..Len(cfgs) |-> j],
              LAMBDA j : FlagTrue(cfgs[j]) /\ InstantiateSelector(cfgs[j]).ok)

C25_OneReportPerActiveConfig ==
    pc = "done" =>
        LET want == ActiveConstructible
            date == IF dateArg.given THEN dateArg.date ELSE MaxDate(frames)
        IN /\ Len(reports) = Len(want)
           /\ \A k \in 1..Len(reports) :
                  k <= Len(want) =>
                      LET cfg == cfgs[want[k]]
                          s   == InstantiateSelector(cfg).selector
                      IN /\ reports[k].cfg = want[k]
                         /\ reports[k].alias = Get(cfg, "alias", cfg.class)
                         /\ reports[k].date = date
                         /\ Codes(reports[k]) = Codes(Select(s, date, frames))
                         /\ tickers.all =>
                                \A other \in Perms(dir) :
                                    Codes(reports[k]) =
                                        Codes(Select(s, date,
                                                     LoadData(dir, other)))

-----------------------------------------------------------------------------
(* C26: in the reference KDJ loop an undefined rsv[i] at an index i >= 1    *)
(* makes K, D and J undefined at i and at every later index, each value     *)
(* being computed from the previous one; hence with the 9-bar RSV           *)
(* (undefined for i < 8) J is undefined at every index >= 1 and no          *)
(* comparison on J can be true                                              *)

\* J thresholds far below and far above every J value
JProbes == {RInt(-1000), RInt(1000)}

\* checked on every series as it grows, in the runs that are not the 60-bar
\* scenario
C26_UndefinedRSVPropagates ==
    (sel \in SelChoices /\ phase = "history") =>
        \A rsv \in {RSV(bars, KDJWindow)} :
            \A kdj \in {KDJ(bars, KDJWindow)} :
                /\ \A i \in 2..Len(bars) :
                       IsNaN(rsv[i]) =>
                           \A l \in i..Len(bars) :
                               /\ IsNaN(kdj.k[l])
                               /\ IsNaN(kdj.d[l])
                               /\ IsNaN(kdj.j[l])
                /\ \A i \in 2..(KDJWindow - 1) :
                       i <= Len(bars) => IsNaN(rsv[i])
                /\ \A i \in 2..Len(bars) :
                       /\ IsNaN(kdj.j[i])
                       /\ \A t \in JProbes :
                              ~JAbove(kdj.j[i], t) /\ ~RLt(kdj.j[i], t)

\* the RSV is defined at the last bar of a long series and J is not
C26_Witness ==
    /\ sel \in SelChoices
    /\ Len(bars) > KDJWindow
    /\ IsNum(RSV(bars, KDJWindow)[Len(bars)])
    /\ \A kdj \in {KDJ(bars, KDJWindow)} :
           IsNaN(kdj.j[Len(bars)]) /\ kdj.j[1] = RInt(50)

-----------------------------------------------------------------------------
(* C27: in the fetch driver no two tasks submitted to the thread pool in    *)
(* one run write the same CSV path: the output paths of all A-share tasks   *)
(* and all HK tasks are pairwise distinct, also when the output directory   *)
(* already holds an HK_<code>.csv file whose stem is added back to the      *)
(* A-share code list while the same code is fetched as an HK task           *)

C27_TaskPathsDistinct ==
    \A i \in 1..Len(task), j \in 1..Len(task) :
        i # j => task[i].path # task[j].path

-----------------------------------------------------------------------------
(* C28: fetch_one calls get_kline at most 3 times, stops at the first       *)
(* attempt that returns an empty frame or completes the write, and always   *)
(* returns normally: when all three attempts raise it logs the failure and  *)
(* returns without propagating an exception, so a failing code never stops  *)
(* the other fetch tasks                                                    *)

Stopped == {"uptodate", "empty", "merged", "created", "failed"}

C28_AtMostThreeAttempts ==
    \A t \in 1..Len(task) :
        LET tk == task[t]
        IN  /\ tk.calls <= MaxAttempts
            /\ Len(tk.asked) = tk.calls
            /\ tk.pc = "loop" => tk.calls = tk.attempt - 1 /\ tk.ended = "no"
            /\ tk.pc = "write" => tk.calls = tk.attempt /\ tk.ended = "no"
            /\ tk.pc = "done" => tk.ended \in Stopped
            /\ tk.ended \in {"empty", "merged", "created"} =>
                   tk.pc = "done" /\ tk.calls = tk.attempt
            /\ tk.wrote <=> tk.ended \in {"merged", "created"}
            /\ tk.ended = "failed" =>
                   /\ tk.pc = "done"
                   /\ tk.calls = MaxAttempts
                   /\ tk.errors >= MaxAttempts + 1
                   /\ \A u \in 1..Len(task) :
                          task[u].pc # "done" =>
                              ENABLED (StartTask(u) \/ Attempt(u)
                                           \/ WriteCsv(u))

C28_Witness ==
    \E t \in 1..Len(task), u \in 1..Len(task) :
        /\ task[t].ended = "failed"
        /\ task[t].calls = MaxAttempts
        /\ task[u].wrote
        /\ task[u].calls = 2
        /\ \E w \in 1..Len(task) : task[w].pc = "ready"

-----------------------------------------------------------------------------
(* C29: after a successful incremental fetch_one on an existing CSV the     *)
(* written file has exactly one row per date in ascending date order,       *)
(* contains every date of the old file and every date of the newly fetched  *)
(* data, and for a date present in both keeps the old file's row            *)

\* the first row of rows dated d
FirstRowOf(rows, d) ==
    rows[CHOOSE i \in 1..Len(rows) :
             /\ rows[i].date = d
             /\ \A j \in 1..(i - 1) : rows[j].date # d]

WroteLast(t) ==
    \A u \in 1..Len(task) :
        (u # t /\ task[u].path = task[t].path) => ~task[u].wrote

C29_MergeKeepsOldRows ==
    \A t \in 1..Len(task) :
        task[t].ended = "merged" =>
            LET old == task[t].old
                new == task[t].new
                out == task[t].out
            IN  /\ \A i \in 1..(Len(out) - 1) : out[i].date < out[i + 1].date
                /\ DatesOf(out) = DatesOf(old) \cup DatesOf(new)
                /\ \A i \in 1..Len(out) :
                       out[i] = IF out[i].date \in DatesOf(old)
                                THEN FirstRowOf(old, out[i].date)
                                ELSE FirstRowOf(new, out[i].date)
                /\ WroteLast(t) => disk[task[t].path] = CsvFile(out)

C29_Witness ==
    \E t \in 1..Len(task) :
        /\ task[t].ended = "merged"
        /\ WroteLast(t)
        /\ DatesOf(task[t].old) \cap DatesOf(task[t].new) # {}
        /\ DatesOf(task[t].new) \ DatesOf(task[t].old) # {}
        /\ DatesOf(task[t].old) \ DatesOf(task[t].new) # {}
        /\ Len(disk[task[t].path].rows) = 3

-----------------------------------------------------------------------------
(* C30: in incremental fetch_one, when the existing CSV's last date is      *)
(* strictly after the requested end date no provider call is made and the   *)
(* file is left unchanged; otherwise the fetch starts from the file's last  *)
(* date (inclusive), and a fetch that returns no rows leaves the file       *)
(* unchanged                                                                *)

\* the task found a readable CSV when it started
SawCsv(tk) == tk.seen.exists /\ tk.seen.ok

C30_SkipOrResumeFromLastDate ==
    \A t \in 1..Len(task) :
        LET tk == task[t]
        IN  /\ (tk.pc # "ready" /\ SawCsv(tk)
                    /\ LastDate(tk.seen.rows) > tk.end) =>
                   /\ tk.pc = "done" /\ tk.ended = "uptodate"
                   /\ tk.calls = 0
                   /\ ~tk.wrote
                   /\ WroteLast(t) => disk[tk.path] = tk.seen
            /\ (tk.pc # "ready" /\ SawCsv(tk)
                    /\ LastDate(tk.seen.rows) <= tk.end) =>
                   /\ tk.ended # "uptodate"
                   /\ tk.start = LastDate(tk.seen.rows)
                   /\ \A i \in 1..Len(tk.asked) :
                          tk.asked[i] = LastDate(tk.seen.rows)
                   /\ tk.pc = "done" => tk.calls >= 1
            /\ tk.ended = "empty" =>
                   /\ ~tk.wrote
                   /\ WroteLast(t) =>
                          disk[tk.path] = IF tk.seen.exists THEN tk.seen
                                          ELSE Absent

C30_Witness ==
    \E t \in 1..Len(task), u \in 1..Len(task) :
        /\ task[t].ended = "uptodate" /\ task[t].calls = 0
        /\ task[u].ended = "empty" /\ SawCsv(task[u])
        /\ task[u].asked = <<RequestedEnd, RequestedEnd>>

=============================================================================
